---- MODULE Spec2Model ----
(***************************************************************************)
(* A model of pkgdiff.py: reading two archives into manifests, stripping   *)
(* leading path components, diffing the key sets, comparing the common     *)
(* entries and showing content diffs through an external git process.      *)
(*                                                                         *)
(* Strings are sequences of one-character strings, so that splitting,      *)
(* joining, suffixes and lower-casing are computed and not assumed.        *)
(* A Python dict is a sequence of <<key, value>> pairs with unique keys,   *)
(* in insertion order.  POSIX is assumed: os.sep is "/".                   *)
(***************************************************************************)
EXTENDS Integers, Sequences, FiniteSets, TLC

VARIABLES
    files,          \* args.files
    strip,          \* args.strip
    compare_mtime,  \* args.compare_mtime
    show_diff,      \* args.show_diff
    pc,             \* position in main / show_file_diff, or in a single call
    m1, m2,         \* the two manifests
    only_in_1, only_in_2, common,   \* result of diff_common
    todo,           \* sorted(common) not yet iterated
    output,         \* the lines printed so far
    opened,         \* archives opened so far: [file, backend]
    tmpfiles,       \* temporary files that exist on disk
    error,          \* the exception that ended the run, "" if none
    compared,       \* file names compare_subset has been applied to, in order
    calls,          \* invocations of the external tool: [file, outcome]
    call,           \* the arguments of a single function call
    ret             \* the value a single function call returned

vars == <<files, strip, compare_mtime, show_diff, pc, m1, m2, only_in_1,
          only_in_2, common, todo, output, opened, tmpfiles, error, compared,
          calls, call, ret>>

----------------------------------------------------------------------------
(* Characters and strings *)

sep == "/"

UpperCase == <<"A","B","C","D","E","F","G","H","I","J","K","L","M",
               "N","O","P","Q","R","S","T","U","V","W","X","Y","Z">>

LowerCase == <<"a","b","c","d","e","f","g","h","i","j","k","l","m",
               "n","o","p","q","r","s","t","u","v","w","x","y","z">>

\* the code point of a character, as far as ordering goes: punctuation
\* "." "/" precedes upper case, which precedes lower case
Ord(c) ==
    IF c = "." THEN 46
    ELSE IF c = "/" THEN 47
    ELSE IF \E i \in DOMAIN UpperCase : UpperCase[i] = c
         THEN 64 + (CHOOSE i \in DOMAIN UpperCase : UpperCase[i] = c)
    ELSE IF \E i \in DOMAIN LowerCase : LowerCase[i] = c
         THEN 96 + (CHOOSE i \in DOMAIN LowerCase : LowerCase[i] = c)
    ELSE 127

\* str.lower()
Lower(s) ==
    [i \in DOMAIN s |->
        IF \E j \in DOMAIN UpperCase : UpperCase[j] = s[i]
        THEN LowerCase[CHOOSE j \in DOMAIN UpperCase : UpperCase[j] = s[i]]
        ELSE s[i]]

\* sub in s
Contains(s, sub) ==
    \E i \in 0..(Len(s) - Len(sub)) : SubSeq(s, i + 1, i + Len(sub)) = sub

\* s.rfind(c), 1-based, 0 when absent
RFind(s, c) ==
    IF \E i \in DOMAIN s : s[i] = c
    THEN CHOOSE i \in DOMAIN s : s[i] = c /\ \A j \in DOMAIN s : s[j] = c => j <= i
    ELSE 0

\* os.path.splitext(p)[-1]
SplitExt(p) ==
    LET sepIndex == RFind(p, sep)
        dotIndex == RFind(p, ".")
    IN  IF dotIndex > sepIndex
           /\ \E i \in (sepIndex + 1)..(dotIndex - 1) : p[i] # "."
        THEN SubSeq(p, dotIndex, Len(p))
        ELSE <<>>

\* key.split(os.sep)
RECURSIVE Split(_)
Split(s) ==
    IF \A i \in DOMAIN s : s[i] # sep
    THEN <<s>>
    ELSE LET i == CHOOSE i \in DOMAIN s :
                      s[i] = sep /\ \A j \in 1..(i - 1) : s[j] # sep
         IN  <<SubSeq(s, 1, i - 1)>> \o Split(SubSeq(s, i + 1, Len(s)))

\* os.sep.join(components)
RECURSIVE Join(_)
Join(components) ==
    IF Len(components) = 0 THEN <<>>
    ELSE IF Len(components) = 1 THEN components[1]
    ELSE components[1] \o <<sep>> \o Join(Tail(components))

\* a < b for str: lexicographic by code point
RECURSIVE StrLess(_, _)
StrLess(a, b) ==
    IF Len(b) = 0 THEN FALSE
    ELSE IF Len(a) = 0 THEN TRUE
    ELSE IF a[1] # b[1] THEN Ord(a[1]) < Ord(b[1])
    ELSE StrLess(Tail(a), Tail(b))

\* sorted(set of str)
RECURSIVE Sorted(_)
Sorted(S) ==
    IF S = {} THEN <<>>
    ELSE LET least == CHOOSE x \in S : \A y \in S \ {x} : StrLess(x, y)
         IN  <<least>> \o Sorted(S \ {least})

----------------------------------------------------------------------------
(* Python dicts *)

DictKeys(d) == {d[i][1] : i \in DOMAIN d}

DictGet(d, k) == d[CHOOSE i \in DOMAIN d : d[i][1] = k][2]

\* d[k] = v
DictPut(d, k, v) ==
    IF k \in DictKeys(d)
    THEN [i \in DOMAIN d |-> IF d[i][1] = k THEN <<k, v>> ELSE d[i]]
    ELSE Append(d, <<k, v>>)

\* {k: v for ...}: a later pair overwrites an earlier one of the same key
RECURSIVE DictFrom(_)
DictFrom(pairs) ==
    IF Len(pairs) = 0 THEN <<>>
    ELSE LET n == Len(pairs)
         IN  DictPut(DictFrom(SubSeq(pairs, 1, n - 1)), pairs[n][1], pairs[n][2])

----------------------------------------------------------------------------
(* The file system: what each archive file name holds *)

\* file names, as the command line gives them
a_tgz == <<"a", ".", "t", "g", "z">>
b_tar_gz == <<"b", ".", "t", "a", "r", ".", "g", "z">>
a_zip == <<"a", ".", "z", "i", "p">>
b_whl == <<"b", ".", "w", "h", "l">>
k_zip == <<"k", ".", "z", "i", "p">>
c_rar == <<"c", ".", "r", "a", "r">>
m_tgz == <<"m", ".", "t", "g", "z">>

\* member names
d == <<"d">>
d_ == <<"d", "/">>
d_x == <<"d", "/", "x", ".", "c">>
d_y == <<"d", "/", "y">>
d_l == <<"d", "/", "l">>
e_x == <<"e", "/", "x">>

\* a tarfile.TarInfo: mtime is seconds since the epoch
TarInfo(name, type, mtime, data) ==
    [name |-> name, type |-> type, size |-> Len(data), mtime |-> mtime,
     data |-> data]

\* a zipfile.ZipInfo: date_time is (year, month, day, hour, minute, second)
ZipInfo(filename, date_time, data) ==
    [filename |-> filename, file_size |-> Len(data), date_time |-> date_time,
     data |-> data]

Disk ==
    (a_tgz :> [fmt |-> "tar", members |-> <<
        TarInfo(d, "dir", 0, <<>>),
        TarInfo(d_x, "reg", 0, <<1>>),
        TarInfo(d_y, "reg", 0, <<1, 2>>),
        TarInfo(d_l, "sym", 0, <<>>) >>])
    @@ (b_tar_gz :> [fmt |-> "tar", members |-> <<
        TarInfo(d, "dir", 61, <<>>),
        TarInfo(d_x, "reg", 61, <<1, 1>>),
        TarInfo(d_y, "reg", 61, <<2, 1>>),
        TarInfo(d_l, "reg", 0, <<>>),
        TarInfo(e_x, "reg", 0, <<3>>),
        TarInfo(d_x, "reg", 61, <<1, 3>>) >>])
    @@ (a_zip :> [fmt |-> "zip", members |-> <<
        ZipInfo(d_, <<1970, 1, 1, 0, 0, 0>>, <<>>),
        ZipInfo(d_x, <<1970, 1, 1, 0, 0, 0>>, <<1>>),
        ZipInfo(d_y, <<1970, 1, 1, 0, 0, 0>>, <<2>>) >>])
    @@ (b_whl :> [fmt |-> "zip", members |-> <<
        ZipInfo(d_x, <<1970, 1, 1, 0, 1, 1>>, <<1, 1, 1>>),
        ZipInfo(d_y, <<1970, 1, 1, 0, 0, 0>>, <<2, 2>>),
        ZipInfo(e_x, <<1970, 1, 1, 0, 0, 0>>, <<>>) >>])
    @@ (k_zip :> [fmt |-> "zip", members |-> <<
        ZipInfo(d_x, <<1980, 0, 0, 0, 0, 0>>, <<1>>) >>])

\* what open() finds under a name: a name the file system does not hold is
\* a missing file
DiskAt(filename) ==
    IF filename \in DOMAIN Disk THEN Disk[filename]
    ELSE [fmt |-> "missing", members |-> <<>>]

----------------------------------------------------------------------------
(* Manifest entries and the two readers *)

\* Optional[bytes]: None, or the bytes
None == [present |-> FALSE, bytes |-> <<>>]

Bytes(data) == [present |-> TRUE, bytes |-> data]

\* bool(content)
Truthy(content) == content.present /\ Len(content.bytes) > 0

ManifestEntry(name, size, mtime, original, content) ==
    [name |-> name, size |-> size, mtime |-> mtime, original |-> original,
     content |-> content]

Ok(manifest) == [ok |-> TRUE, manifest |-> manifest, error |-> ""]

Raise(exc) == [ok |-> FALSE, manifest |-> <<>>, error |-> exc]

\* datetime.datetime.fromtimestamp(t), for t within January 1970 and a
\* local time zone of UTC
FromTimestamp(t) ==
    <<1970, 1, 1 + (t \div 86400), (t % 86400) \div 3600, (t % 3600) \div 60,
      t % 60>>

\* datetime.datetime(*date_time) raises ValueError outside the calendar
ValidDateTime(t) ==
    /\ t[2] \in 1..12
    /\ t[3] \in 1..31
    /\ t[4] \in 0..23
    /\ t[5] \in 0..59
    /\ t[6] \in 0..59

isdir(ti) == ti.type = "dir"

isreg(ti) == ti.type = "reg"

\* the (key, entry) pairs of read_tar_manifest's comprehension
RECURSIVE TarPairs(_, _)
TarPairs(members, keep_content) ==
    IF Len(members) = 0 THEN <<>>
    ELSE LET ti == members[1]
             entry == ManifestEntry(ti.name, ti.size, FromTimestamp(ti.mtime),
                          ti,
                          IF isreg(ti) /\ keep_content THEN Bytes(ti.data)
                          ELSE None)
         IN  (IF ~isdir(ti) THEN << <<ti.name, entry>> >> ELSE <<>>)
             \o TarPairs(Tail(members), keep_content)

read_tar_manifest(filename, keep_content) ==
    LET f == DiskAt(filename)
    IN  IF f.fmt = "missing" THEN Raise("FileNotFoundError")
        ELSE IF f.fmt # "tar" THEN Raise("ReadError")
        ELSE Ok(DictFrom(TarPairs(f.members, keep_content)))

\* the (key, entry) pairs of read_zip_manifest's comprehension
RECURSIVE ZipPairs(_, _)
ZipPairs(members, keep_content) ==
    IF Len(members) = 0 THEN <<>>
    ELSE LET info == members[1]
             entry == ManifestEntry(info.filename, info.file_size,
                          info.date_time, info,
                          IF keep_content THEN Bytes(info.data) ELSE None)
         IN  << <<info.filename, entry>> >>
             \o ZipPairs(Tail(members), keep_content)

read_zip_manifest(filename, keep_content) ==
    LET f == DiskAt(filename)
    IN  IF f.fmt = "missing" THEN Raise("FileNotFoundError")
        ELSE IF f.fmt # "zip" THEN Raise("BadZipFile")
        ELSE IF \E i \in DOMAIN f.members : ~ValidDateTime(f.members[i].date_time)
        THEN Raise("ValueError")
        ELSE Ok(DictFrom(ZipPairs(f.members, keep_content)))

dot_tar_dot == <<".", "t", "a", "r", ".">>
dot_tgz == <<".", "t", "g", "z">>
dot_zip == <<".", "z", "i", "p">>
dot_whl == <<".", "w", "h", "l">>

\* the extension without .lower()
Ext_case_sensitive(filename) == SplitExt(filename)

\* os.path.splitext(filename)[-1].lower()
Ext(filename) == Lower(SplitExt(filename))

\* the reader read_package_manifest hands the file to: "tar", "zip", or
\* "none" when it raises ValueError
Backend(filename) ==
    IF Contains(filename, dot_tar_dot) \/ Ext(filename) = dot_tgz THEN "tar"
    ELSE IF Ext(filename) \in {dot_zip, dot_whl} THEN "zip"
    ELSE "none"

read_package_manifest(filename, keep_content) ==
    IF Backend(filename) = "tar" THEN read_tar_manifest(filename, keep_content)
    ELSE IF Backend(filename) = "zip" THEN read_zip_manifest(filename, keep_content)
    ELSE Raise("ValueError: No reader")

\* the archives read_package_manifest opens on the way
Opens(filename) ==
    IF Backend(filename) = "none" THEN <<>>
    ELSE <<[file |-> filename, backend |-> Backend(filename)]>>

----------------------------------------------------------------------------
(* Normalisation, set difference, attribute comparison *)

\* strip_if_possible with >= for >: a key of exactly n components loses all
strip_if_possible_ge(components, n) ==
    IF Len(components) >= n THEN SubSeq(components, n + 1, Len(components))
    ELSE components

strip_if_possible(components, n) ==
    IF Len(components) > n THEN SubSeq(components, n + 1, Len(components))
    ELSE components

\* the (key, value) pairs of strip_names' comprehension, in the manifest's
\* iteration order
StripPairs(manifest, n) ==
    [i \in DOMAIN manifest |->
        <<Join(strip_if_possible(Split(manifest[i][1]), n)), manifest[i][2]>>]

strip_names(manifest, n) == DictFrom(StripPairs(manifest, n))

\* diff_common with | for & in the third set
diff_common_union(a, b) ==
    LET sa == DictKeys(a)
        sb == DictKeys(b)
    IN  <<sa \ sb, sb \ sa, sa \cup sb>>

diff_common(a, b) ==
    LET sa == DictKeys(a)
        sb == DictKeys(b)
    IN  <<sa \ sb, sb \ sa, sa \cap sb>>

\* getattr(e, key)
getattr(e, key) == IF key = "size" THEN e.size ELSE e.mtime

\* the dict compare_subset returns: a function from the differing keys to
\* the pairs of values
compare_subset(a, b, keys) ==
    LET differing == {key \in keys : getattr(a, key) # getattr(b, key)}
    IN  [key \in differing |-> <<getattr(a, key), getattr(b, key)>>]

\* comparison_keys with the mtime key added whatever the flag says
comparison_keys_always_mtime(cmp_mtime) == {"size", "mtime"}

\* comparison_keys of main
comparison_keys(cmp_mtime) ==
    IF cmp_mtime THEN {"size", "mtime"} ELSE {"size"}

----------------------------------------------------------------------------
(* Bounds of the model *)

\* the command line names 1..MaxFiles files (nargs="+")
MaxFiles == 3

\* --strip ranges over 0..MaxStrip
MaxStrip == 2

----------------------------------------------------------------------------
(* main, statement by statement *)

\* m_tgz names no file of the file system
FileNames == DOMAIN Disk \cup {c_rar, m_tgz}

\* sequences over S of length 1..n
SeqsUpTo(S, n) == UNION {[1..k -> S] : k \in 1..n}

Line(kind, name, count, diffs) ==
    [kind |-> kind, name |-> name, count |-> count, diffs |-> diffs]

NoDiffs == [key \in {} |-> 0]

NameLines(names) == [i \in DOMAIN names |-> Line("name", names[i], 0, NoDiffs)]

\* the state before main's first statement, given the parsed arguments
Start(fs, n, cmp_mtime, show) ==
    /\ files = fs
    /\ strip = n
    /\ compare_mtime = cmp_mtime
    /\ show_diff = show
    /\ m1 = <<>>
    /\ m2 = <<>>
    /\ only_in_1 = {}
    /\ only_in_2 = {}
    /\ common = {}
    /\ todo = <<>>
    /\ output = <<>>
    /\ opened = <<>>
    /\ tmpfiles = {}
    /\ error = ""
    /\ compared = <<>>
    /\ calls = <<>>
    /\ call = [fn |-> "main"]
    /\ ret = <<>>

Init ==
    /\ pc = "main"
    /\ \E fs \in SeqsUpTo(FileNames, MaxFiles), n \in 0..MaxStrip,
          cmp_mtime \in BOOLEAN, show \in BOOLEAN :
            Start(fs, n, cmp_mtime, show)

\* if len(args.files) != 2: raise ValueError(...)
CheckArgs ==
    /\ pc = "main"
    /\ IF Len(files) # 2
       THEN /\ pc' = "failed"
            /\ error' = "ValueError: Only 2 files"
       ELSE /\ pc' = "read1"
            /\ UNCHANGED error
    /\ UNCHANGED <<files, strip, compare_mtime, show_diff, m1, m2, only_in_1,
                   only_in_2, common, todo, output, opened, tmpfiles,
                   compared, calls, call, ret>>

\* m1 = read_package_manifest(f1, keep_content=show_diff)
Read1 ==
    /\ pc = "read1"
    /\ LET r == read_package_manifest(files[1], show_diff)
       IN  /\ opened' = opened \o Opens(files[1])
           /\ IF r.ok
              THEN /\ m1' = r.manifest
                   /\ pc' = "strip1"
                   /\ UNCHANGED error
              ELSE /\ error' = r.error
                   /\ pc' = "failed"
                   /\ UNCHANGED m1
    /\ UNCHANGED <<files, strip, compare_mtime, show_diff, m2, only_in_1,
                   only_in_2, common, todo, output, tmpfiles, compared, calls,
                   call, ret>>

\* m1 = strip_names(m1, strip=args.strip)
Strip1 ==
    /\ pc = "strip1"
    /\ m1' = strip_names(m1, strip)
    /\ pc' = "read2"
    /\ UNCHANGED <<files, strip, compare_mtime, show_diff, m2, only_in_1,
                   only_in_2, common, todo, output, opened, tmpfiles, error,
                   compared, calls, call, ret>>

\* Read2 with the reader's exception caught and the run going on with an
\* empty second manifest
Read2_swallowing ==
    /\ pc = "read2"
    /\ LET r == read_package_manifest(files[2], show_diff)
       IN  /\ opened' = opened \o Opens(files[2])
           /\ m2' = r.manifest
           /\ error' = r.error
           /\ pc' = "strip2"
    /\ UNCHANGED <<files, strip, compare_mtime, show_diff, m1, only_in_1,
                   only_in_2, common, todo, output, tmpfiles, compared, calls,
                   call, ret>>

\* m2 = read_package_manifest(f2, keep_content=show_diff)
Read2 ==
    /\ pc = "read2"
    /\ LET r == read_package_manifest(files[2], show_diff)
       IN  /\ opened' = opened \o Opens(files[2])
           /\ IF r.ok
              THEN /\ m2' = r.manifest
                   /\ pc' = "strip2"
                   /\ UNCHANGED error
              ELSE /\ error' = r.error
                   /\ pc' = "failed"
                   /\ UNCHANGED m2
    /\ UNCHANGED <<files, strip, compare_mtime, show_diff, m1, only_in_1,
                   only_in_2, common, todo, output, tmpfiles, compared, calls,
                   call, ret>>

\* m2 = strip_names(m2, strip=args.strip)
Strip2 ==
    /\ pc = "strip2"
    /\ m2' = strip_names(m2, strip)
    /\ pc' = "diff"
    /\ UNCHANGED <<files, strip, compare_mtime, show_diff, m1, only_in_1,
                   only_in_2, common, todo, output, opened, tmpfiles, error,
                   compared, calls, call, ret>>

\* only_in_1, only_in_2, common = diff_common(m1, m2)
DiffCommon ==
    /\ pc = "diff"
    /\ LET r == diff_common(m1, m2)
       IN  /\ only_in_1' = r[1]
           /\ only_in_2' = r[2]
           /\ common' = r[3]
    /\ pc' = "only1"
    /\ UNCHANGED <<files, strip, compare_mtime, show_diff, m1, m2, todo,
                   output, opened, tmpfiles, error, compared, calls, call, ret>>

\* the block printed for the files of one archive only
OnlyInLines(only, f) ==
    IF only # {}
    THEN <<Line("only", f, Cardinality(only), NoDiffs)>> \o NameLines(Sorted(only))
    ELSE <<>>

\* if only_in_1: ...
PrintOnlyIn1 ==
    /\ pc = "only1"
    /\ output' = output \o OnlyInLines(only_in_1, files[1])
    /\ pc' = "only2"
    /\ UNCHANGED <<files, strip, compare_mtime, show_diff, m1, m2, only_in_1,
                   only_in_2, common, todo, opened, tmpfiles, error, compared,
                   calls, call, ret>>

\* if only_in_2: ...
PrintOnlyIn2 ==
    /\ pc = "only2"
    /\ output' = output \o OnlyInLines(only_in_2, files[2])
    /\ pc' = "common"
    /\ UNCHANGED <<files, strip, compare_mtime, show_diff, m1, m2, only_in_1,
                   only_in_2, common, todo, opened, tmpfiles, error, compared,
                   calls, call, ret>>

\* where the loop over sorted(common) goes with `rest` left to iterate
LoopPc(rest) == IF Len(rest) = 0 THEN "done" ELSE "loop"

\* if common: print the header and start the loop over sorted(common)
PrintCommon ==
    /\ pc = "common"
    /\ IF common # {}
       THEN /\ output' = Append(output,
                             Line("common", <<>>, Cardinality(common), NoDiffs))
            /\ todo' = Sorted(common)
            /\ pc' = "loop"
       ELSE /\ pc' = "done"
            /\ UNCHANGED <<output, todo>>
    /\ UNCHANGED <<files, strip, compare_mtime, show_diff, m1, m2, only_in_1,
                   only_in_2, common, opened, tmpfiles, error, compared, calls,
                   call, ret>>

\* one iteration of the loop, up to the call of show_file_diff
Compare ==
    /\ pc = "loop"
    /\ LET filename == Head(todo)
           e1 == DictGet(m1, filename)
           e2 == DictGet(m2, filename)
           diffs == compare_subset(e1, e2, comparison_keys(compare_mtime))
       IN  /\ compared' = Append(compared, filename)
           /\ todo' = Tail(todo)
           /\ IF DOMAIN diffs # {}
              THEN /\ output' = Append(output, Line("diff", filename, 0, diffs))
                   /\ pc' = IF show_diff /\ Truthy(e1.content) /\ Truthy(e2.content)
                            THEN "tfa"
                            ELSE LoopPc(Tail(todo))
              ELSE /\ pc' = LoopPc(Tail(todo))
                   /\ UNCHANGED output
    /\ UNCHANGED <<files, strip, compare_mtime, show_diff, m1, m2, only_in_1,
                   only_in_2, common, opened, tmpfiles, error, calls, call, ret>>

----------------------------------------------------------------------------
(* show_file_diff, statement by statement.  The file it is called for is    *)
(* the last element of `compared`.                                          *)

current == compared[Len(compared)]

\* the temporary file NamedTemporaryFile(prefix=..., suffix=ext) creates
TempFile(prefix, filename) ==
    [prefix |-> prefix, suffix |-> SplitExt(filename), owner |-> filename]

\* tfa = tempfile.NamedTemporaryFile(prefix="a", ...): created, or OSError
CreateTfa ==
    /\ pc = "tfa"
    /\ \E created \in BOOLEAN :
          IF created
          THEN /\ tmpfiles' = tmpfiles \cup {TempFile("a", current)}
               /\ pc' = "tfb"
               /\ UNCHANGED error
          ELSE /\ pc' = "failed"
               /\ error' = "OSError"
               /\ UNCHANGED tmpfiles
    /\ UNCHANGED <<files, strip, compare_mtime, show_diff, m1, m2, only_in_1,
                   only_in_2, common, todo, output, opened, compared, calls,
                   call, ret>>

\* tfb = tempfile.NamedTemporaryFile(prefix="b", ...): created, or OSError
\* raised while tfa is held by the frame's local only
CreateTfb ==
    /\ pc = "tfb"
    /\ \E created \in BOOLEAN :
          IF created
          THEN /\ tmpfiles' = tmpfiles \cup {TempFile("b", current)}
               /\ pc' = "write"
               /\ UNCHANGED error
          ELSE /\ pc' = "failed"
               /\ error' = "OSError"
               /\ UNCHANGED tmpfiles
    /\ UNCHANGED <<files, strip, compare_mtime, show_diff, m1, m2, only_in_1,
                   only_in_2, common, todo, output, opened, compared, calls,
                   call, ret>>

\* leaving `with tfa, tfb:` closes both files, which deletes them
WithExit(files_) == files_ \ {TempFile("a", current), TempFile("b", current)}

\* the writes and flushes inside the with block: done, or OSError
WriteFlush ==
    /\ pc = "write"
    /\ \E written \in BOOLEAN :
          IF written
          THEN /\ pc' = "git"
               /\ UNCHANGED <<tmpfiles, error>>
          ELSE /\ tmpfiles' = WithExit(tmpfiles)
               /\ pc' = "failed"
               /\ error' = "OSError"
    /\ UNCHANGED <<files, strip, compare_mtime, show_diff, m1, m2, only_in_1,
                   only_in_2, common, todo, output, opened, compared, calls,
                   call, ret>>

\* what the host does with subprocess.call([shutil.which("git"), ...]):
\* which() finds no git, or git runs and exits with 0 or with another status
GitOutcomes == {"missing", "exit0", "nonzero"}

\* subprocess.check_call for subprocess.call: a non-zero status raises too
CallRaises_check_call(outcome) == outcome # "exit0"

\* whether subprocess.call raises: with which() returning None the argument
\* list holds None and Popen raises TypeError; an exit status is returned
CallRaises(outcome) == outcome = "missing"

\* subprocess.call(...), then the end of the with block and of the function
CallGit ==
    /\ pc = "git"
    /\ \E outcome \in GitOutcomes :
          /\ calls' = Append(calls, [file |-> current, outcome |-> outcome])
          /\ tmpfiles' = WithExit(tmpfiles)
          /\ IF CallRaises(outcome)
             THEN /\ pc' = "failed"
                  /\ error' = "TypeError"
             ELSE /\ pc' = LoopPc(todo)
                  /\ UNCHANGED error
    /\ UNCHANGED <<files, strip, compare_mtime, show_diff, m1, m2, only_in_1,
                   only_in_2, common, todo, output, opened, compared, call, ret>>

\* the process ends; a temporary file object that is still alive is
\* finalized (and its file deleted) or not
Exit ==
    /\ pc \in {"done", "failed"}
    /\ pc' = "exited"
    /\ \E finalized \in BOOLEAN :
          tmpfiles' = IF finalized THEN {} ELSE tmpfiles
    /\ UNCHANGED <<files, strip, compare_mtime, show_diff, m1, m2, only_in_1,
                   only_in_2, common, todo, output, opened, error, compared,
                   calls, call, ret>>

Next ==
    \/ CheckArgs
    \/ Read1
    \/ Strip1
    \/ Read2
    \/ Strip2
    \/ DiffCommon
    \/ PrintOnlyIn1
    \/ PrintOnlyIn2
    \/ PrintCommon
    \/ Compare
    \/ CreateTfa
    \/ CreateTfb
    \/ WriteFlush
    \/ CallGit
    \/ Exit

Spec == Init /\ [][Next]_vars

----------------------------------------------------------------------------
(* Single calls of the pure functions, on inputs drawn from bounded sets *)

\* the state before a single call: no run of main is in progress
Idle(c) ==
    /\ pc = "call"
    /\ call = c
    /\ ret = <<>>
    /\ files = <<>>
    /\ strip = 0
    /\ compare_mtime = FALSE
    /\ show_diff = FALSE
    /\ m1 = <<>>
    /\ m2 = <<>>
    /\ only_in_1 = {}
    /\ only_in_2 = {}
    /\ common = {}
    /\ todo = <<>>
    /\ output = <<>>
    /\ opened = <<>>
    /\ tmpfiles = {}
    /\ error = ""
    /\ compared = <<>>
    /\ calls = <<>>

main_vars == <<files, strip, compare_mtime, show_diff, m1, m2, only_in_1,
               only_in_2, common, todo, output, tmpfiles, error, compared,
               calls>>

\* a manifest holding the given keys in the given order, as a reader builds
\* it: each entry is named by its key
ManifestOf(keys) ==
    DictFrom([i \in DOMAIN keys |->
        <<keys[i],
          ManifestEntry(keys[i], i, FromTimestamp(0),
                        TarInfo(keys[i], "reg", 0, <<>>), None)>>])

\* --- diff_common ---

DiffNames == {<<"x">>, <<"y">>, d_x, d_}

InitDiff ==
    \E A \in SUBSET DiffNames, B \in SUBSET DiffNames :
        Idle([fn |-> "diff_common", a |-> ManifestOf(Sorted(A)),
              b |-> ManifestOf(Sorted(B))])

CallDiffCommon ==
    /\ pc = "call"
    /\ ret' = diff_common(call.a, call.b)
    /\ pc' = "returned"
    /\ UNCHANGED <<main_vars, opened, call>>

SpecDiff == InitDiff /\ [][CallDiffCommon]_vars

\* --- strip_names ---

\* keys are non-empty strings of at most MaxKeyLen characters
MaxKeyLen == 3

KeyChars == {"a", "b", sep}

KeyPool == SeqsUpTo(KeyChars, MaxKeyLen)

InitStrip ==
    \E k1 \in KeyPool, k2 \in KeyPool, n \in 0..MaxStrip :
        Idle([fn |-> "strip_names",
              manifest |-> ManifestOf(IF k1 = k2 THEN <<k1>> ELSE <<k1, k2>>),
              strip |-> n])

CallStripNames ==
    /\ pc = "call"
    /\ ret' = strip_names(call.manifest, call.strip)
    /\ pc' = "returned"
    /\ UNCHANGED <<main_vars, opened, call>>

SpecStrip == InitStrip /\ [][CallStripNames]_vars

\* --- read_package_manifest ---

\* file names are built of at most MaxPieces of these pieces
MaxPieces == 3

Pieces == {<<"a">>, <<sep>>, <<".">>,
           <<".", "t", "a", "r">>, <<".", "T", "A", "R">>,
           dot_tgz, <<".", "T", "g", "z">>,
           dot_zip, <<".", "Z", "I", "P">>,
           dot_whl, <<".", "r", "a", "r">>, <<".", "g", "z">>}

RECURSIVE Flatten(_)
Flatten(ps) == IF Len(ps) = 0 THEN <<>> ELSE ps[1] \o Flatten(Tail(ps))

FileNamePool == {Flatten(ps) : ps \in SeqsUpTo(Pieces, MaxPieces)}

InitDispatch ==
    \E f \in FileNamePool, keep \in BOOLEAN :
        Idle([fn |-> "read_package_manifest", filename |-> f,
              keep_content |-> keep])

CallReadPackageManifest ==
    /\ pc = "call"
    /\ ret' = read_package_manifest(call.filename, call.keep_content)
    /\ opened' = opened \o Opens(call.filename)
    /\ pc' = "returned"
    /\ UNCHANGED <<main_vars, call>>

SpecDispatch == InitDispatch /\ [][CallReadPackageManifest]_vars

----------------------------------------------------------------------------
(* Properties *)

Range(f) == {f[i] : i \in DOMAIN f}

Entries(manifest) == {manifest[i][2] : i \in DOMAIN manifest}

EndsWith(s, suffix) ==
    /\ Len(s) >= Len(suffix)
    /\ SubSeq(s, Len(s) - Len(suffix) + 1, Len(s)) = suffix

\* C1: after diff_common(a, b) returns (OnlyInA, OnlyInB, Common), OnlyInA
\* and OnlyInB are disjoint, the three sets together are keys(a) \cup keys(b),
\* and Common is exactly keys(a) \cap keys(b).
C1_DiffPartition ==
    pc = "returned" =>
        LET ka == {call.a[i][1] : i \in DOMAIN call.a}
            kb == {call.b[i][1] : i \in DOMAIN call.b}
        IN  /\ ret[1] \cap ret[2] = {}
            /\ ret[1] \cup ret[2] \cup ret[3] = ka \cup kb
            /\ ret[3] = ka \cap kb

\* a call of diff_common on two manifests that overlap and each hold a key
\* of their own
C1_Witness ==
    /\ pc = "returned"
    /\ ret[1] # {}
    /\ ret[2] # {}
    /\ ret[3] # {}

\* the requested attributes in which the two entries of a common file differ
Differing(filename) ==
    LET e1 == DictGet(m1, filename)
        e2 == DictGet(m2, filename)
    IN  {k \in {"size"} : e1.size # e2.size}
        \cup {k \in {"mtime"} : compare_mtime /\ e1.mtime # e2.mtime}

DiffLinesOf(filename) ==
    {i \in DOMAIN output : output[i].kind = "diff" /\ output[i].name = filename}

\* C2: a common file that has been compared has an output line if and only
\* if a requested attribute (size always, mtime only under --compare-mtime)
\* differs; the line's mapping holds exactly the differing requested
\* attributes with the pair of values, so mtime never appears without
\* --compare-mtime; and a run that ends normally has compared every common
\* file.
C2_CompareOutput ==
    /\ \A i \in DOMAIN output :
          output[i].kind = "diff" =>
              LET f == output[i].name
                  e1 == DictGet(m1, f)
                  e2 == DictGet(m2, f)
              IN  /\ f \in common
                  /\ DOMAIN output[i].diffs = Differing(f)
                  /\ DOMAIN output[i].diffs # {}
                  /\ "size" \in DOMAIN output[i].diffs =>
                        output[i].diffs["size"] = <<e1.size, e2.size>>
                  /\ "mtime" \in DOMAIN output[i].diffs =>
                        /\ compare_mtime
                        /\ output[i].diffs["mtime"] = <<e1.mtime, e2.mtime>>
    /\ \A f \in Range(compared) :
          Cardinality(DiffLinesOf(f)) = IF Differing(f) # {} THEN 1 ELSE 0
    /\ pc = "done" => Range(compared) = DictKeys(m1) \cap DictKeys(m2)

\* a finished run without --compare-mtime where one common file differs in
\* mtime alone and has no line, and another differs in size and has one
C2_Witness ==
    /\ pc = "done"
    /\ ~compare_mtime
    /\ \E f \in common :
          /\ DictGet(m1, f).mtime # DictGet(m2, f).mtime
          /\ DictGet(m1, f).size = DictGet(m2, f).size
          /\ DiffLinesOf(f) = {}
    /\ \E g \in common : DiffLinesOf(g) # {}

\* filename has the extension ext (a dot and letters) in any letter case:
\* it ends with it, and the final path component has a character other than
\* a dot before it
HasExtension(filename, ext) ==
    /\ EndsWith(Lower(filename), ext)
    /\ \E i \in 1..(Len(filename) - Len(ext)) :
          /\ filename[i] \notin {".", sep}
          /\ \A j \in i..(Len(filename) - Len(ext)) : filename[j] # sep

TarOpened(filename) == opened = <<[file |-> filename, backend |-> "tar"]>>

ZipOpened(filename) == opened = <<[file |-> filename, backend |-> "zip"]>>

Unsupported == opened = <<>> /\ ~ret.ok /\ ret.error = "ValueError: No reader"

\* C3 as stated: a name that contains ".tar." or ends with ".tgz" goes to
\* the tar backend, else one with the extension ".zip" or ".whl" goes to the
\* zip backend, else the call fails without opening a file.
C3_DispatchAsStated ==
    pc = "returned" =>
        LET f == call.filename
        IN  IF Contains(f, dot_tar_dot) \/ EndsWith(f, dot_tgz) THEN TarOpened(f)
            ELSE IF HasExtension(f, dot_zip) \/ HasExtension(f, dot_whl)
                 THEN ZipOpened(f)
            ELSE Unsupported

\* C3 amended: a name that contains ".tar." or whose extension is ".tgz" in
\* any letter case goes to the tar backend, else one whose extension is
\* ".zip" or ".whl" in any letter case goes to the zip backend, else the call
\* fails without opening a file.
C3_Dispatch ==
    pc = "returned" =>
        LET f == call.filename
        IN  IF Contains(f, dot_tar_dot) \/ HasExtension(f, dot_tgz) THEN TarOpened(f)
            ELSE IF HasExtension(f, dot_zip) \/ HasExtension(f, dot_whl)
                 THEN ZipOpened(f)
            ELSE Unsupported

\* a name in upper case, which does not end with ".tgz", is read as a tar
C3_Witness ==
    /\ pc = "returned"
    /\ ~EndsWith(call.filename, dot_tgz)
    /\ ~Contains(call.filename, dot_tar_dot)
    /\ HasExtension(call.filename, dot_tgz)
    /\ TarOpened(call.filename)

\* whether the archive member an entry was built from is a directory
IsDirectory(original) ==
    IF "type" \in DOMAIN original THEN original.type = "dir"
    ELSE EndsWith(original.filename, <<sep>>)

\* C4: no manifest holds an entry of a directory member of its archive.
C4_NoDirectoryEntries ==
    \A e \in Entries(m1) \cup Entries(m2) : ~IsDirectory(e.original)

\* C5: in every manifest, read or stripped, each entry's name is its key.
C5_NameIsKey ==
    /\ \A i \in DOMAIN m1 : m1[i][2].name = m1[i][1]
    /\ \A i \in DOMAIN m2 : m2[i][2].name = m2[i][1]

NumSeps(key) == Cardinality({i \in DOMAIN key : key[i] = sep})

\* key with its first n components dropped, for a key of more than n
\* components: what follows its n-th separator
AfterSeps(key, n) ==
    IF n = 0 THEN key
    ELSE LET i == CHOOSE i \in DOMAIN key :
                      /\ key[i] = sep
                      /\ Cardinality({j \in 1..i : key[j] = sep}) = n
         IN  SubSeq(key, i + 1, Len(key))

Stripped(key, n) == IF NumSeps(key) + 1 > n THEN AfterSeps(key, n) ELSE key

\* C6: strip_names maps a key of more than strip components to the key
\* without its first strip components, and leaves any other key unchanged;
\* with strip = 0 the manifest comes back as it was.
C6_StripKeys ==
    pc = "returned" =>
        /\ DictKeys(ret) =
              {Stripped(call.manifest[i][1], call.strip) : i \in DOMAIN call.manifest}
        /\ call.strip = 0 => ret = call.manifest

\* a call with strip >= 1 on a manifest with one key that is stripped and
\* one that has too few components and stays
C6_Witness ==
    /\ pc = "returned"
    /\ call.strip >= 1
    /\ \E k \in DictKeys(call.manifest) :
          /\ NumSeps(k) + 1 > call.strip
          /\ Stripped(k, call.strip) # k
          /\ Stripped(k, call.strip) \in DictKeys(ret)
    /\ \E k \in DictKeys(call.manifest) :
          /\ NumSeps(k) + 1 <= call.strip
          /\ k \in DictKeys(ret)

\* C7: no key of a manifest, read or stripped, is the empty string.
C7_NoEmptyKey ==
    \A k \in DictKeys(m1) \cup DictKeys(m2) : Len(k) > 0

ReadErrors == {"ValueError: No reader", "FileNotFoundError", "ReadError",
               "BadZipFile", "ValueError"}

\* C8: with a number of files other than 2 no archive is ever opened; a run
\* that a reader's error ended has printed nothing; and nothing is printed
\* before both manifests have been read and stripped.
C8_ErrorsPrecedeOutput ==
    /\ Len(files) # 2 => opened = <<>> /\ output = <<>>
    /\ error \in ReadErrors => output = <<>>
    /\ output # <<>> =>
          /\ Len(opened) = 2
          /\ pc \notin {"main", "read1", "strip1", "read2", "strip2", "diff",
                        "only1"}

\* a run that read its first archive, which holds files, and failed on the
\* second
C8_Witness ==
    /\ pc = "failed"
    /\ error \in ReadErrors
    /\ Len(opened) = 2
    /\ m1 # <<>>
    /\ output = <<>>

\* the loop has gone through sorted(common) up to the current file
ComparedInOrder ==
    /\ Len(compared) <= Cardinality(common)
    /\ compared = SubSeq(Sorted(common), 1, Len(compared))

\* C9 as stated: once the external tool has failed for a file, by a missing
\* binary or by a non-zero exit status, the run has stopped there: that
\* invocation is the last one and no later common file is compared.
C9_StopsOnAnyFailure ==
    \A i \in DOMAIN calls :
        calls[i].outcome \in {"missing", "nonzero"} =>
            /\ i = Len(calls)
            /\ compared[Len(compared)] = calls[i].file

\* C9 amended: a missing binary stops the run at that file, with the lines
\* of every differing file up to it printed and no later file compared; a
\* non-zero exit status stops nothing: the run fails with the tool's
\* exception only for a missing binary, and a run that ends normally has
\* compared every common file.
C9_ToolFailure ==
    /\ \A i \in DOMAIN calls :
          calls[i].outcome = "missing" =>
              /\ i = Len(calls)
              /\ pc \in {"failed", "exited"}
              /\ error = "TypeError"
              /\ compared[Len(compared)] = calls[i].file
              /\ ComparedInOrder
              /\ output[Len(output)].kind = "diff"
              /\ output[Len(output)].name = calls[i].file
              /\ \A f \in Range(compared) :
                    Differing(f) # {} => DiffLinesOf(f) # {}
    /\ error = "TypeError" =>
          /\ calls # <<>>
          /\ calls[Len(calls)].outcome = "missing"
    /\ pc = "done" => compared = Sorted(common)

\* a finished run in which the tool exited non-zero for one file and a
\* later file was compared and handed to the tool all the same
C9_Witness ==
    /\ pc = "done"
    /\ Len(calls) >= 2
    /\ calls[1].outcome = "nonzero"
    /\ calls[1].file # compared[Len(compared)]

\* a run stopped by a missing binary with a common file left uncompared
C9_WitnessMissing ==
    /\ pc = "failed"
    /\ calls # <<>>
    /\ calls[Len(calls)].outcome = "missing"
    /\ todo # <<>>

\* C10: outside show_file_diff no temporary file exists.
C10_TempFilesDeleted ==
    pc \notin {"tfb", "write", "git"} => tmpfiles = {}

====
